---- MODULE Spec2Model ----
(***************************************************************************)
(* A model of polyfloyd/go-iterator: the pull protocol (Iterator.Next),    *)
(* the sources and adapters that implement it, the optional Counter        *)
(* capability, and the ToChannel/FromChannel bridge.                        *)
(*                                                                         *)
(* An iterator is a record value: its kind, the fields of the Go struct,   *)
(* and two observation counters (calls: how often its Next was called,     *)
(* got: how often that Next returned an item; a Map also counts in        *)
(* applied how often it ran mapFunc).  Next and Count are                  *)
(* operators from an iterator value to the result of the call together     *)
(* with the iterator's state after it.  A call that never returns (a loop  *)
(* over Repeat, a receive on a channel nobody sends on) has hang = TRUE.   *)
(***************************************************************************)
EXTENDS Integers, Sequences, FiniteSets, TLC

\* ------------------------------------------------------------------ bounds
\* Longest slice handed to FromSlice.
MaxLen == 3

\* Most calls made on one handle in the sequential specification.
MaxOps == 4

\* Largest num handed to Take (the smallest is -1).
MaxTake == 2

\* Largest buffer handed to ToChannel.
MaxBuffer == 2

\* Iterations after which a loop is taken never to end.  Every finite
\* sequence of the model is shorter than this, so only a loop that never
\* ends (over Repeat, or over a Range whose start wrapped around and can no
\* longer reach its end) runs out of it.
Fuel == 4 * MaxLen + 8

\* Longest history kept of what the goroutine pulled and of what the consumer
\* was returned: enough for every finite upstream of the model and the absent
\* results after it.  Later events are not recorded.
MaxHist == MaxLen + 2

\* ------------------------------------------------------------- variables
VARIABLES
    iter,       \* the handle the caller holds (sequential specification)
    iter0,      \* that handle as constructed
    trace,      \* the calls made on the handle and what each returned
    hung,       \* a call on the handle never returned
    args,       \* the arguments of the Range call the caller makes, if any
    result,     \* the slices the caller's ToSlice calls returned, in order
    gfrom,      \* ToChannel: from, the iterator the goroutine pulls from
    gfrom0,     \* that iterator as handed to ToChannel
    buffer,     \* ToChannel: the capacity of out
    out,        \* the items buffered in the channel out
    closed,     \* out is closed
    ctxDone,    \* ctx.Done() is closed: the context is cancelled
    gpc,        \* where the goroutine of ToChannel is
    gitem,      \* the goroutine's item
    cpc,        \* where the consumer of the channelIterator is
    results,    \* what the consumer's Next calls returned, in order
    pulled,     \* the items the goroutine got from from.Next(), in order
    firedAt,    \* the consumer's position when the context was cancelled
    up          \* a second bridge upstream of the first, whose channel the
                \* first reads through gfrom: its from, buffer, ctxDone, and
                \* its goroutine's position (pc) and item in hand

seqVars == <<iter, iter0, trace, hung, args, result>>

bridgeVars == <<gfrom, gfrom0, buffer, out, closed, ctxDone, gpc, gitem, cpc,
                results, pulled, firedAt, up>>

vars == <<seqVars, bridgeVars>>

\* ----------------------------------------------------------- call results
\* The nil interface value (flattenIterator.head before the first group).
Nil == [kind |-> "nil"]

\* What a Next call returns, and the iterator after the call.
Res(it, item, ok) == [it |-> it, item |-> item, ok |-> ok, hang |-> FALSE]

\* What a Count call returns, and the iterator after the call.
CRes(it, n) == [it |-> it, n |-> n, hang |-> FALSE]

\* A call that never returns.
Hang == [it |-> Nil, item |-> 0, n |-> 0, ok |-> FALSE, hang |-> TRUE]

\* ----------------------------------------------------------- constructors
Empty == [kind |-> "empty", calls |-> 0, got |-> 0]

\* item is the *T of the struct: <<x>> points to x, <<>> is nil.
Once(item) == [kind |-> "once", item |-> <<item>>, calls |-> 0, got |-> 0]

Repeat(item) == [kind |-> "repeat", rep |-> item, calls |-> 0, got |-> 0]

\* rangeIterator[int8]: the fixed-width instance of the generic type.
IntBits == 8

IntMin == -(2 ^ (IntBits - 1))

IntMax == 2 ^ (IntBits - 1) - 1

\* Two's complement wrap-around of a sum of the fixed-width type.
Wrap(x) == ((x - IntMin) % (2 ^ IntBits)) + IntMin

\* Range with step < 0 for step <= 0: a step of zero is let through.
RangeAllowsZeroStep(start, end, step) ==
    IF end < start THEN [kind |-> "panic", msg |-> "Range: end may not be before start"]
    ELSE IF step < 0 THEN [kind |-> "panic", msg |-> "Range: step may not be 0 or negative"]
    ELSE [kind |-> "range", start |-> start, end |-> end, step |-> step,
          calls |-> 0, got |-> 0]

Range(start, end, step) ==
    IF end < start THEN [kind |-> "panic", msg |-> "Range: end may not be before start"]
    ELSE IF step <= 0 THEN [kind |-> "panic", msg |-> "Range: step may not be 0 or negative"]
    ELSE [kind |-> "range", start |-> start, end |-> end, step |-> step,
          calls |-> 0, got |-> 0]

\* sliceIterator[int]
FromSlice(slice) ==
    [kind |-> "slice", elem |-> "int", slice |-> slice, calls |-> 0, got |-> 0]

\* sliceIterator[[]int]
FromSliceOfSlices(groups) ==
    [kind |-> "slice", elem |-> "slice", groups |-> groups, calls |-> 0, got |-> 0]

\* sliceIterator[Iterator[int]]
FromSliceOfIters(iters) ==
    [kind |-> "slice", elem |-> "iter", iters |-> iters, calls |-> 0, got |-> 0]

\* A channel the caller supplies: what is buffered in it and whether it is
\* closed.  Nothing sends on it any more.
FromChannel(buf, isClosed) ==
    [kind |-> "channel", chbuf |-> buf, closed |-> isClosed, calls |-> 0, got |-> 0]

Map(from, mapFunc) ==
    [kind |-> "map", from |-> from, mapFunc |-> mapFunc, applied |-> 0,
     calls |-> 0, got |-> 0]

FilterMap(from, mapFunc) ==
    [kind |-> "filtermap", from |-> from, mapFunc |-> mapFunc, calls |-> 0, got |-> 0]

Flatten(from) ==
    [kind |-> "flatten", from |-> from, head |-> Nil, calls |-> 0, got |-> 0]

Filter(from, filterFunc) ==
    [kind |-> "filter", from |-> from, filterFunc |-> filterFunc, calls |-> 0, got |-> 0]

Take(from, num) ==
    [kind |-> "take", from |-> from, num |-> num, calls |-> 0, got |-> 0]

\* The Counter interface: the types with a Count method.
IsCounter(it) == it.kind \in {"map", "flatten", "take"}

\* ------------------------------------------------- the caller's closures
\* mapFunc of Map: the closures of the tests, and the closure of
\* flattenIterator.Count, which counts the inner iterator it is given.
RECURSIVE IterNext(_), IterCount(_), Count(_)

ApplyMap(mapFunc, item) ==
    CASE mapFunc = "double" -> [val |-> item * 2, hang |-> FALSE]
      [] mapFunc = "FromSlice" -> [val |-> FromSlice(item), hang |-> FALSE]
      [] mapFunc = "Count" ->
            LET c == Count(item) IN [val |-> c.n, hang |-> c.hang]

\* mapFunc of FilterMap: func(i) { j := i * 2; return j, j < 5 }
ApplyFilterMap(mapFunc, item) ==
    CASE mapFunc = "doubleLt5" -> [val |-> item * 2, keep |-> item * 2 < 5]

\* filterFunc of Filter: func(i) bool { return i%2 == 0 }
ApplyFilter(filterFunc, item) ==
    CASE filterFunc = "even" -> item % 2 = 0

\* reduceFunc of Reduce: the closures of Sum, Min and Max, and a caller's
\* closure whose result depends on the order of the items,
\* func(accum, item int) int { return accum*2 + item }.
ApplyReduce(reduceFunc, accum, item) ==
    CASE reduceFunc = "add" -> accum + item
      [] reduceFunc = "min" -> IF item < accum THEN item ELSE accum
      [] reduceFunc = "max" -> IF item > accum THEN item ELSE accum
      [] reduceFunc = "shiftAdd" -> accum * 2 + item

\* ------------------------------------------------------------ the sources
emptyIteratorNext(it) == Res(it, 0, FALSE)

onceIteratorNext(it) ==
    IF it.item # <<>>
    THEN Res([it EXCEPT !.item = <<>>], it.item[1], TRUE)
    ELSE Res(it, 0, FALSE)

repeatIteratorNext(it) == Res(it, it.rep, TRUE)

rangeIteratorNext(it) ==
    IF it.start >= it.end
    THEN Res(it, 0, FALSE)
    ELSE Res([it EXCEPT !.start = Wrap(it.start + it.step)], it.start, TRUE)

\* The slice of a sliceIterator, whatever its element type.
SliceOf(it) ==
    CASE it.elem = "int" -> it.slice
      [] it.elem = "slice" -> it.groups
      [] it.elem = "iter" -> it.iters

WithSlice(it, s) ==
    CASE it.elem = "int" -> [it EXCEPT !.slice = s]
      [] it.elem = "slice" -> [it EXCEPT !.groups = s]
      [] it.elem = "iter" -> [it EXCEPT !.iters = s]

sliceIteratorNext(it) ==
    IF Len(SliceOf(it)) = 0
    THEN Res(it, 0, FALSE)
    ELSE Res(WithSlice(it, Tail(SliceOf(it))), Head(SliceOf(it)), TRUE)

\* item, ok := <-iter.from, on a channel nobody sends on any more: the
\* receive takes what is buffered, reports a closed channel, or blocks.
channelIteratorNext(it) ==
    IF Len(it.chbuf) > 0
    THEN Res([it EXCEPT !.chbuf = Tail(@)], Head(it.chbuf), TRUE)
    ELSE IF it.closed THEN Res(it, 0, FALSE)
    ELSE Hang

\* ----------------------------------------------------------- the adapters
\* Map.Next that fetches the item after the one it returns and drops it.
mapIteratorNextLooksAhead(it) ==
    LET r == IterNext(it.from) IN
    IF r.hang THEN Hang
    ELSE IF ~r.ok THEN Res([it EXCEPT !.from = r.it], 0, FALSE)
    ELSE LET m == ApplyMap(it.mapFunc, r.item)
             a == IterNext(r.it)
         IN
         IF m.hang \/ a.hang THEN Hang
         ELSE Res([it EXCEPT !.from = a.it, !.applied = @ + 1], m.val, TRUE)

mapIteratorNext(it) ==
    LET r == IterNext(it.from) IN
    IF r.hang THEN Hang
    ELSE IF ~r.ok THEN Res([it EXCEPT !.from = r.it], 0, FALSE)
    ELSE LET m == ApplyMap(it.mapFunc, r.item) IN
         IF m.hang THEN Hang
         ELSE Res([it EXCEPT !.from = r.it, !.applied = @ + 1], m.val, TRUE)

\* Map.Count that runs mapFunc once for each item it counts.
mapIteratorCountApplies(it) ==
    LET c == Count(it.from) IN
    IF c.hang THEN Hang
    ELSE CRes([it EXCEPT !.from = c.it, !.applied = @ + c.n], c.n)

\* Map.Count that also counts the items already pulled through the Map.
mapIteratorCountWithPulled(it) ==
    LET c == Count(it.from) IN
    IF c.hang THEN Hang ELSE CRes([it EXCEPT !.from = c.it], c.n + it.got)

mapIteratorCount(it) ==
    LET c == Count(it.from) IN
    IF c.hang THEN Hang ELSE CRes([it EXCEPT !.from = c.it], c.n)

\* FilterMap that yields the mapped value whether or not it is to be kept.
filterMapLoopKeepsAll(it, fuel) ==
    LET r == IterNext(it.from) IN
    IF r.hang THEN Hang
    ELSE IF ~r.ok THEN Res([it EXCEPT !.from = r.it], 0, FALSE)
    ELSE Res([it EXCEPT !.from = r.it], ApplyFilterMap(it.mapFunc, r.item).val, TRUE)

RECURSIVE filterMapLoop(_, _)

filterMapLoop(it, fuel) ==
    IF fuel = 0 THEN Hang
    ELSE LET r == IterNext(it.from) IN
         IF r.hang THEN Hang
         ELSE IF ~r.ok THEN Res([it EXCEPT !.from = r.it], 0, FALSE)
         ELSE LET m == ApplyFilterMap(it.mapFunc, r.item) IN
              IF m.keep
              THEN Res([it EXCEPT !.from = r.it], m.val, TRUE)
              ELSE filterMapLoop([it EXCEPT !.from = r.it], fuel - 1)

filterMapIteratorNext(it) == filterMapLoop(it, Fuel)

\* Flatten that reports absent when the active inner iterator runs out,
\* instead of going on to the next group.
flattenLoopStopsAtGroupEnd(it, fuel) ==
    LET o == IF it.head.kind = "nil" THEN IterNext(it.from)
             ELSE Res(it.from, it.head, TRUE)
    IN
    IF o.hang THEN Hang
    ELSE IF ~o.ok THEN Res([it EXCEPT !.from = o.it], 0, FALSE)
    ELSE LET h == IterNext(o.item) IN
         IF h.hang THEN Hang
         ELSE IF h.ok
         THEN Res([it EXCEPT !.from = o.it, !.head = h.it], h.item, TRUE)
         ELSE Res([it EXCEPT !.from = o.it, !.head = Nil], 0, FALSE)

RECURSIVE flattenLoop(_, _)

flattenLoop(it, fuel) ==
    IF fuel = 0 THEN Hang
    ELSE LET o == IF it.head.kind = "nil" THEN IterNext(it.from)
                  ELSE Res(it.from, it.head, TRUE)
         IN
         IF o.hang THEN Hang
         ELSE IF ~o.ok THEN Res([it EXCEPT !.from = o.it], 0, FALSE)
         ELSE LET h == IterNext(o.item) IN
              IF h.hang THEN Hang
              ELSE IF h.ok
              THEN Res([it EXCEPT !.from = o.it, !.head = h.it], h.item, TRUE)
              ELSE flattenLoop([it EXCEPT !.from = o.it, !.head = Nil], fuel - 1)

flattenIteratorNext(it) == flattenLoop(it, Fuel)

\* Filter that yields the items failing the test.
RECURSIVE filterLoopInverted(_, _)

filterLoopInverted(it, fuel) ==
    IF fuel = 0 THEN Hang
    ELSE LET r == IterNext(it.from) IN
         IF r.hang THEN Hang
         ELSE IF ~r.ok THEN Res([it EXCEPT !.from = r.it], 0, FALSE)
         ELSE IF ~ApplyFilter(it.filterFunc, r.item)
              THEN Res([it EXCEPT !.from = r.it], r.item, TRUE)
              ELSE filterLoopInverted([it EXCEPT !.from = r.it], fuel - 1)

RECURSIVE filterLoop(_, _)

filterLoop(it, fuel) ==
    IF fuel = 0 THEN Hang
    ELSE LET r == IterNext(it.from) IN
         IF r.hang THEN Hang
         ELSE IF ~r.ok THEN Res([it EXCEPT !.from = r.it], 0, FALSE)
         ELSE IF ApplyFilter(it.filterFunc, r.item)
              THEN Res([it EXCEPT !.from = r.it], r.item, TRUE)
              ELSE filterLoop([it EXCEPT !.from = r.it], fuel - 1)

\* Filter without its loop: absent as soon as one item fails the test.
filterIteratorNextNoLoop(it) ==
    LET r == IterNext(it.from) IN
    IF r.hang THEN Hang
    ELSE IF r.ok /\ ApplyFilter(it.filterFunc, r.item)
         THEN Res([it EXCEPT !.from = r.it], r.item, TRUE)
         ELSE Res([it EXCEPT !.from = r.it], 0, FALSE)

filterIteratorNext(it) == filterLoop(it, Fuel)

\* Take with iter.num < 0 for iter.num <= 0: one item too many.
takeIteratorNextOffByOne(it) ==
    IF it.num < 0 THEN Res(it, 0, FALSE)
    ELSE LET r == IterNext(it.from) IN
         IF r.hang THEN Hang
         ELSE Res([it EXCEPT !.from = r.it,
                             !.num = IF r.ok THEN @ - 1 ELSE @], r.item, r.ok)

takeIteratorNext(it) ==
    IF it.num <= 0 THEN Res(it, 0, FALSE)
    ELSE LET r == IterNext(it.from) IN
         IF r.hang THEN Hang
         ELSE Res([it EXCEPT !.from = r.it,
                             !.num = IF r.ok THEN @ - 1 ELSE @], r.item, r.ok)

\* The loop of takeIterator.Count for an upstream that is no Counter:
\* for _, ok := from.Next(); ok && count < num; _, ok = from.Next() { count++ }
RECURSIVE takeCountLoop(_, _, _, _)

takeCountLoop(from, num, count, fuel) ==
    IF fuel = 0 THEN Hang
    ELSE LET r == IterNext(from) IN
         IF r.hang THEN Hang
         ELSE IF r.ok /\ count < num
              THEN takeCountLoop(r.it, num, count + 1, fuel - 1)
              ELSE CRes(r.it, count)

\* Take.Count without iter.num = 0: the allowance survives the Count.
takeIteratorCountKeepsNum(it) ==
    LET c == IF IsCounter(it.from)
             THEN IterCount(it.from)
             ELSE takeCountLoop(it.from, it.num, 0, Fuel)
    IN
    IF c.hang THEN Hang
    ELSE CRes([it EXCEPT !.from = c.it], IF it.num < c.n THEN it.num ELSE c.n)

takeIteratorCount(it) ==
    LET c == IF IsCounter(it.from)
             THEN IterCount(it.from)
             ELSE takeCountLoop(it.from, it.num, 0, Fuel)
    IN
    IF c.hang THEN Hang
    ELSE CRes([it EXCEPT !.from = c.it, !.num = 0],
              IF it.num < c.n THEN it.num ELSE c.n)

\* ------------------------------------------------------------- the sinks
\* ToSlice that puts each item in front of those collected before it.
RECURSIVE toSliceLoopPrepend(_, _, _)

toSliceLoopPrepend(from, slice, fuel) ==
    IF fuel = 0 THEN Hang
    ELSE LET r == IterNext(from) IN
         IF r.hang THEN Hang
         ELSE IF ~r.ok THEN [it |-> r.it, slice |-> slice, hang |-> FALSE]
         ELSE toSliceLoopPrepend(r.it, <<r.item>> \o slice, fuel - 1)

RECURSIVE toSliceLoop(_, _, _)

toSliceLoop(from, slice, fuel) ==
    IF fuel = 0 THEN Hang
    ELSE LET r == IterNext(from) IN
         IF r.hang THEN Hang
         ELSE IF ~r.ok THEN [it |-> r.it, slice |-> slice, hang |-> FALSE]
         ELSE toSliceLoop(r.it, Append(slice, r.item), fuel - 1)

\* slice is the slice returned.
ToSlice(from) == toSliceLoop(from, <<>>, Fuel)

\* Reduce that hands the item and the accumulator to reduceFunc the wrong
\* way round.
RECURSIVE reduceLoopSwapped(_, _, _, _)

reduceLoopSwapped(from, reduceFunc, accum, fuel) ==
    IF fuel = 0 THEN Hang
    ELSE LET r == IterNext(from) IN
         IF r.hang THEN Hang
         ELSE IF ~r.ok THEN CRes(r.it, accum)
         ELSE reduceLoopSwapped(r.it, reduceFunc,
                                ApplyReduce(reduceFunc, r.item, accum), fuel - 1)

RECURSIVE reduceLoop(_, _, _, _)

reduceLoop(from, reduceFunc, accum, fuel) ==
    IF fuel = 0 THEN Hang
    ELSE LET r == IterNext(from) IN
         IF r.hang THEN Hang
         ELSE IF ~r.ok THEN CRes(r.it, accum)
         ELSE reduceLoop(r.it, reduceFunc, ApplyReduce(reduceFunc, accum, r.item),
                         fuel - 1)

\* n is the accumulator returned.
Reduce(from, reduceFunc, initial) == reduceLoop(from, reduceFunc, initial, Fuel)

Sum(from) == Reduce(from, "add", 0)

\* return min, true (return max, true), m being what Reduce returned.
reduced(m) == IF m.hang THEN Hang ELSE Res(m.it, m.n, TRUE)

\* The body of Min and Max after init, ok := from.Next(), r being what that
\* call returned: the zero value and false, or Reduce from init.
reduceFromInit(r, reduceFunc) ==
    IF r.hang THEN Hang
    ELSE IF ~r.ok THEN Res(r.it, 0, FALSE)
    ELSE reduced(Reduce(r.it, reduceFunc, r.item))

\* Min that takes its initial value from the second item, not the first.
MinSkipsFirst(from) ==
    LET f == IterNext(from) IN
    IF f.hang THEN Hang
    ELSE IF ~f.ok THEN Res(f.it, 0, FALSE)
    ELSE reduceFromInit(IterNext(f.it), "min")

Min(from) == reduceFromInit(IterNext(from), "min")

Max(from) == reduceFromInit(IterNext(from), "max")

\* Flatten.Count without the items left in the active inner iterator.
flattenIteratorCountNoHead(it) ==
    LET s == Sum(Map(it.from, "Count")) IN
    IF s.hang THEN Hang ELSE CRes([it EXCEPT !.from = s.it.from], s.n)

\* fromCounts wraps iter.from itself, so summing it exhausts iter.from.
flattenIteratorCount(it) ==
    LET s == Sum(Map(it.from, "Count")) IN
    IF s.hang THEN Hang
    ELSE IF it.head.kind # "nil"
    THEN LET h == Count(it.head) IN
         IF h.hang THEN Hang
         ELSE CRes([it EXCEPT !.from = s.it.from, !.head = h.it], s.n + h.n)
    ELSE CRes([it EXCEPT !.from = s.it.from], s.n)

RECURSIVE countLoop(_, _, _)

countLoop(from, count, fuel) ==
    IF fuel = 0 THEN Hang
    ELSE LET r == IterNext(from) IN
         IF r.hang THEN Hang
         ELSE IF ~r.ok THEN CRes(r.it, count)
         ELSE countLoop(r.it, count + 1, fuel - 1)

\* Count without the type assertion: it pulls whatever it is given.
CountNoDelegation(from) == countLoop(from, 0, Fuel)

\* counter.Count(): the Count method of the dynamic type.
IterCount(it) ==
    CASE it.kind = "map" -> mapIteratorCount(it)
      [] it.kind = "flatten" -> flattenIteratorCount(it)
      [] it.kind = "take" -> takeIteratorCount(it)

Count(from) ==
    IF IsCounter(from) THEN IterCount(from) ELSE countLoop(from, 0, Fuel)

\* iter.Next(): the Next method of the dynamic type.  calls and got record
\* the call on the iterator it was made on.
IterNext(it) ==
    LET r == CASE it.kind = "empty" -> emptyIteratorNext(it)
               [] it.kind = "once" -> onceIteratorNext(it)
               [] it.kind = "repeat" -> repeatIteratorNext(it)
               [] it.kind = "range" -> rangeIteratorNext(it)
               [] it.kind = "slice" -> sliceIteratorNext(it)
               [] it.kind = "channel" -> channelIteratorNext(it)
               [] it.kind = "map" -> mapIteratorNext(it)
               [] it.kind = "filtermap" -> filterMapIteratorNext(it)
               [] it.kind = "flatten" -> flattenIteratorNext(it)
               [] it.kind = "filter" -> filterIteratorNext(it)
               [] it.kind = "take" -> takeIteratorNext(it)
    IN
    IF r.hang THEN r
    ELSE [r EXCEPT !.it.calls = @ + 1, !.it.got = @ + (IF r.ok THEN 1 ELSE 0)]

\* --------------------------------------------- the handles a caller builds
\* The slices <<1, ..., n>>: distinct items, so that a lost, repeated or
\* reordered item shows.
Slices == {[i \in 1..n |-> i] : n \in 0..MaxLen}

Sources ==
    {Empty, Once(7), Repeat(7)}
        \cup {Range(0, e, st) : e \in {0, MaxLen}, st \in 1..2}
        \cup {FromSlice(s) : s \in Slices}
        \cup {FromChannel(s, c) : s \in {t \in Slices : Len(t) <= 2}, c \in BOOLEAN}

\* The groups of a Flatten: up to two slices, or up to two iterators.
GroupSlices == {<<>>, <<1>>, <<2, 3>>}

InnerIters == {Empty, FromSlice(<<1, 2>>), Repeat(7), Take(FromSlice(<<1, 2, 3>>), 2)}

SeqsUpTo2(S) == {<<>>} \cup {<<a>> : a \in S} \cup {<<a, b>> : a \in S, b \in S}

Flattens ==
    {Flatten(Map(FromSliceOfSlices(g), "FromSlice")) : g \in SeqsUpTo2(GroupSlices)}
        \cup {Flatten(FromSliceOfIters(g)) : g \in SeqsUpTo2(InnerIters)}

Adapters(S) ==
    {Map(s, "double") : s \in S}
        \cup {Filter(s, "even") : s \in S}
        \cup {FilterMap(s, "doubleLt5") : s \in S}
        \cup {Take(s, n) : s \in S, n \in -1..MaxTake}

Core ==
    {FromSlice([i \in 1..MaxLen |-> i]), Repeat(7),
     Flatten(Map(FromSliceOfSlices(<<<<1>>, <<2, 3>>>>), "FromSlice"))}

\* Every source, every adapter over a source, and adapters over adapters.
Handles ==
    LET base == Sources \cup Flattens IN
    base \cup Adapters(base) \cup Adapters(Adapters(Core))

\* The bridge is not part of the sequential specification.
BridgeIdle ==
    /\ gfrom = Nil
    /\ gfrom0 = Nil
    /\ buffer = 0
    /\ out = <<>>
    /\ closed = FALSE
    /\ ctxDone = FALSE
    /\ gpc = "none"
    /\ gitem = 0
    /\ cpc = "none"
    /\ results = <<>>
    /\ pulled = <<>>
    /\ firedAt = <<>>
    /\ up = Nil

\* ------------------------------------------ the sequential specification
\* The caller holds one handle and calls Next and Count on it, one call
\* after the other.
Init ==
    /\ iter \in Handles
    /\ iter0 = iter
    /\ trace = <<>>
    /\ hung = FALSE
    /\ args = <<>>
    /\ result = <<>>
    /\ BridgeIdle

\* item, ok := iter.Next()
CallNext ==
    /\ ~hung
    /\ Len(trace) < MaxOps
    /\ LET r == IterNext(iter) IN
        IF r.hang
        THEN /\ hung' = TRUE
             /\ UNCHANGED <<iter, trace>>
        ELSE /\ iter' = r.it
             /\ trace' = Append(trace, [op |-> "Next", val |-> r.item, ok |-> r.ok])
             /\ UNCHANGED hung
    /\ UNCHANGED <<iter0, args, result, bridgeVars>>

\* n := Count(iter)
CallCount ==
    /\ ~hung
    /\ Len(trace) < MaxOps
    /\ LET c == Count(iter) IN
        IF c.hang
        THEN /\ hung' = TRUE
             /\ UNCHANGED <<iter, trace>>
        ELSE /\ iter' = c.it
             /\ trace' = Append(trace, [op |-> "Count", val |-> c.n, ok |-> TRUE])
             /\ UNCHANGED hung
    /\ UNCHANGED <<iter0, args, result, bridgeVars>>

Next == CallNext \/ CallCount

Spec == Init /\ [][Next]_vars

\* ------------------------------------------------ the bridge specification
\* FromChannel(ToChannel(ctx, from, buffer)): the goroutine of ToChannel, the
\* consumer calling Next on the channelIterator, and whoever cancels ctx.
\*
\* gpc: "next"   at item, ok := from.Next()
\*      "select" about to run the select, with gitem to send: the case is
\*               chosen when the goroutine takes the step, among the cases
\*               that can proceed then (Go picks at random among them)
\*      "close"  returning, the deferred close(out) still to run
\*      "done"   returned
\* cpc: "idle"   between two Next calls
\*      "recv"   in Next, at item, ok := <-iter.from
\*      "gone"   the consumer has dropped the iterator

\* The upstreams handed to ToChannel: their Next always returns.
Upstreams ==
    {FromSlice(s) : s \in Slices}
        \cup {Repeat(7), Take(Repeat(7), 2), Filter(FromSlice([i \in 1..MaxLen |-> i]), "even")}

\* A history with one more event, while there is room to record it.  No
\* history is kept of two bridges in a chain.
Hist(h, e) == IF up.kind = "nil" /\ Len(h) < MaxHist THEN Append(h, e) ELSE h

\* The bridge keeps no count of the calls on its upstream: pulled records them.
Forget(it) == [it EXCEPT !.calls = 0, !.got = 0]

\* The sequential handle is not part of the bridge specification.
SeqIdle ==
    /\ iter = Nil
    /\ iter0 = Nil
    /\ trace = <<>>
    /\ hung = FALSE
    /\ args = <<>>
    /\ result = <<>>

\* out := make(chan T, buffer); go func() {...}(); return out
InitBridge ==
    /\ SeqIdle
    /\ gfrom \in Upstreams
    /\ gfrom0 = gfrom
    /\ buffer \in 0..MaxBuffer
    /\ out = <<>>
    /\ closed = FALSE
    /\ ctxDone = FALSE
    /\ gpc = "next"
    /\ gitem = 0
    /\ cpc = "idle"
    /\ results = <<>>
    /\ pulled = <<>>
    /\ firedAt = <<>>
    /\ up = Nil

\* A buffer that takes one item more than its capacity.
CanSendOffByOne ==
    IF buffer = 0 THEN cpc = "recv" /\ ~closed ELSE Len(out) <= buffer

\* case out <- item can proceed: a receiver waits on the unbuffered channel,
\* or the buffer has room.
CanSend ==
    IF buffer = 0 THEN cpc = "recv" /\ ~closed ELSE Len(out) < buffer

\* A buffer that hands out the newest item first.
EnqueueFront(q, x) == <<x>> \o q

\* The channel's buffer with one more item sent.
Enqueue(q, x) == Append(q, x)

\* The goroutine without the deferred close when from is exhausted.
GoNextNoClose ==
    /\ gpc = "next"
    /\ LET r == IterNext(gfrom) IN
        IF r.hang
        THEN /\ gpc' = "hung"
             /\ UNCHANGED <<gfrom, gitem, pulled>>
        ELSE /\ gfrom' = Forget(r.it)
             /\ gitem' = r.item
             /\ gpc' = IF r.ok THEN "select" ELSE "done"
             /\ pulled' = IF r.ok THEN Hist(pulled, r.item) ELSE pulled
    /\ UNCHANGED <<gfrom0, buffer, out, closed, ctxDone, cpc, results, firedAt, up, seqVars>>

\* The goroutine sending the item of the round before.
GoNextStaleItem ==
    /\ gpc = "next"
    /\ LET r == IterNext(gfrom) IN
        IF r.hang
        THEN /\ gpc' = "hung"
             /\ UNCHANGED <<gfrom, gitem, pulled>>
        ELSE /\ gfrom' = Forget(r.it)
             /\ UNCHANGED gitem
             /\ gpc' = IF r.ok THEN "select" ELSE "close"
             /\ pulled' = IF r.ok THEN Hist(pulled, r.item) ELSE pulled
    /\ UNCHANGED <<gfrom0, buffer, out, closed, ctxDone, cpc, results, firedAt, up, seqVars>>

\* item, ok := from.Next(), and the loop condition
GoNext ==
    /\ gpc = "next"
    /\ LET r == IterNext(gfrom) IN
        IF r.hang
        THEN /\ gpc' = "hung"
             /\ UNCHANGED <<gfrom, gitem, pulled>>
        ELSE /\ gfrom' = Forget(r.it)
             /\ gitem' = r.item
             /\ gpc' = IF r.ok THEN "select" ELSE "close"
             /\ pulled' = IF r.ok THEN Hist(pulled, r.item) ELSE pulled
    /\ UNCHANGED <<gfrom0, buffer, out, closed, ctxDone, cpc, results, firedAt, up, seqVars>>

\* select: case out <- item
GoSend ==
    /\ gpc = "select"
    /\ CanSend
    /\ IF buffer = 0
       THEN /\ results' = Hist(results, [val |-> gitem, ok |-> TRUE])
            /\ cpc' = "idle"
            /\ UNCHANGED out
       ELSE /\ out' = Enqueue(out, gitem)
            /\ UNCHANGED <<results, cpc>>
    /\ gpc' = "next"
    /\ UNCHANGED <<gfrom, gfrom0, buffer, closed, ctxDone, gitem, pulled, firedAt, up, seqVars>>

\* The select without its ctx.Done() case.
GoCancelOmitted ==
    /\ FALSE
    /\ UNCHANGED vars

\* The ctx.Done() case returning without closing out.
GoCancelNoClose ==
    /\ gpc = "select"
    /\ ctxDone
    /\ gpc' = "done"
    /\ UNCHANGED <<gfrom, gfrom0, buffer, out, closed, ctxDone, gitem, cpc, results,
                   pulled, firedAt, up, seqVars>>

\* select: case <-ctx.Done(): return
GoCancel ==
    /\ gpc = "select"
    /\ ctxDone
    /\ gpc' = "close"
    /\ UNCHANGED <<gfrom, gfrom0, buffer, out, closed, ctxDone, gitem, cpc, results,
                   pulled, firedAt, up, seqVars>>

\* defer close(out)
GoClose ==
    /\ gpc = "close"
    /\ closed' = TRUE
    /\ gpc' = "done"
    /\ UNCHANGED <<gfrom, gfrom0, buffer, out, ctxDone, gitem, cpc, results, pulled,
                   firedAt, up, seqVars>>

\* A cancel() that closes out as well.
CancelClosesOut ==
    /\ ~ctxDone
    /\ ctxDone' = TRUE
    /\ closed' = TRUE
    /\ firedAt' = <<[n |-> Len(results), cpc |-> cpc]>>
    /\ UNCHANGED <<gfrom, gfrom0, buffer, out, gpc, gitem, cpc, results, pulled,
                   up, seqVars>>

\* cancel(): the context's owner cancels it.
Cancel ==
    /\ ~ctxDone
    /\ ctxDone' = TRUE
    /\ firedAt' = <<[n |-> Len(results), cpc |-> cpc]>>
    /\ UNCHANGED <<gfrom, gfrom0, buffer, out, closed, gpc, gitem, cpc, results, pulled,
                   up, seqVars>>

\* The consumer calls channelIterator.Next.
ConsumerCall ==
    /\ cpc = "idle"
    /\ cpc' = "recv"
    /\ UNCHANGED <<gfrom, gfrom0, buffer, out, closed, ctxDone, gpc, gitem, results,
                   pulled, firedAt, up, seqVars>>

\* A receive that reports a closed channel before its buffer is drained.
ConsumerRecvClosedFirst ==
    /\ cpc = "recv"
    /\ \/ /\ Len(out) > 0
          /\ ~closed
          /\ results' = Hist(results, [val |-> Head(out), ok |-> TRUE])
          /\ out' = Tail(out)
       \/ /\ closed
          /\ results' = Hist(results, [val |-> 0, ok |-> FALSE])
          /\ UNCHANGED out
    /\ cpc' = "idle"
    /\ UNCHANGED <<gfrom, gfrom0, buffer, closed, ctxDone, gpc, gitem, pulled, firedAt,
                   up, seqVars>>

\* item, ok := <-iter.from; return item, ok: a buffered item, or the zero
\* value and false from the closed and drained channel.
ConsumerRecv ==
    /\ cpc = "recv"
    /\ \/ /\ Len(out) > 0
          /\ results' = Hist(results, [val |-> Head(out), ok |-> TRUE])
          /\ out' = Tail(out)
       \/ /\ Len(out) = 0
          /\ closed
          /\ results' = Hist(results, [val |-> 0, ok |-> FALSE])
          /\ UNCHANGED out
    /\ cpc' = "idle"
    /\ UNCHANGED <<gfrom, gfrom0, buffer, closed, ctxDone, gpc, gitem, pulled, firedAt,
                   up, seqVars>>

\* The consumer drops the iterator and never calls Next again.
ConsumerAbandon ==
    /\ cpc = "idle"
    /\ cpc' = "gone"
    /\ UNCHANGED <<gfrom, gfrom0, buffer, out, closed, ctxDone, gpc, gitem, results,
                   pulled, firedAt, up, seqVars>>

Goroutine == GoNext \/ GoSend \/ GoCancel \/ GoClose

NextBridge ==
    \/ GoNext
    \/ GoSend
    \/ GoCancel
    \/ GoClose
    \/ Cancel
    \/ ConsumerCall
    \/ ConsumerRecv
    \/ ConsumerAbandon

SpecBridge == InitBridge /\ [][NextBridge]_vars

\* The scheduler runs the goroutine whenever it can take a step; select picks
\* at random among the cases that can proceed, so a case that can proceed
\* again and again is picked in the end; a consumer that has not dropped the
\* iterator keeps calling Next, and its receive completes when it can.
FairSpecBridge ==
    /\ SpecBridge
    /\ WF_vars(Goroutine)
    /\ SF_vars(GoCancel)
    /\ WF_vars(ConsumerCall)
    /\ WF_vars(ConsumerRecv)

\* ------------------------------------------------ two bridges in a chain
\* FromChannel(ToChannel(ctx, FromChannel(ToChannel(upCtx, from, upBuffer)),
\* buffer)): the second bridge is the bridge above, and gfrom is its
\* channelIterator over the channel of the first, on which the goroutine of
\* the first sends.  up.pc is the position of that goroutine, as gpc is of
\* the second's.

\* What the first bridge is built over.
ChainSources == {FromSlice([i \in 1..MaxLen |-> i]), Repeat(7)}

InitChain ==
    /\ SeqIdle
    /\ gfrom = FromChannel(<<>>, FALSE)
    /\ gfrom0 = gfrom
    /\ buffer \in 0..MaxBuffer
    /\ out = <<>>
    /\ closed = FALSE
    /\ ctxDone = FALSE
    /\ gpc = "next"
    /\ gitem = 0
    /\ cpc = "idle"
    /\ results = <<>>
    /\ pulled = <<>>
    /\ firedAt = <<>>
    /\ up \in [kind : {"bridge"}, from : ChainSources, buffer : 0..MaxBuffer,
               ctxDone : {FALSE}, pc : {"next"}, item : {0}]

\* The first bridge's goroutine: item, ok := from.Next(), and the loop
\* condition.
UpNext ==
    /\ up.pc = "next"
    /\ LET r == IterNext(up.from) IN
        up' = [up EXCEPT !.from = Forget(r.it),
                         !.item = r.item,
                         !.pc = IF r.ok THEN "select" ELSE "close"]
    /\ UNCHANGED <<gfrom, gfrom0, buffer, out, closed, ctxDone, gpc, gitem, cpc,
                   results, pulled, firedAt, seqVars>>

\* The first bridge's select: case out <- item.  On an unbuffered channel
\* the send meets the second goroutine's receive in from.Next().
UpSend ==
    /\ up.pc = "select"
    /\ IF up.buffer = 0
       THEN /\ gpc = "next"
            /\ gitem' = up.item
            /\ gpc' = "select"
            /\ pulled' = Hist(pulled, up.item)
            /\ UNCHANGED gfrom
       ELSE /\ Len(gfrom.chbuf) < up.buffer
            /\ gfrom' = [gfrom EXCEPT !.chbuf = Enqueue(@, up.item)]
            /\ UNCHANGED <<gitem, gpc, pulled>>
    /\ up' = [up EXCEPT !.pc = "next"]
    /\ UNCHANGED <<gfrom0, buffer, out, closed, ctxDone, cpc, results, firedAt,
                   seqVars>>

\* The first bridge's select taking the second bridge's ctx.Done().
UpCancelOnDownstreamToken ==
    /\ up.pc = "select"
    /\ ctxDone
    /\ up' = [up EXCEPT !.pc = "close"]
    /\ UNCHANGED <<gfrom, gfrom0, buffer, out, closed, ctxDone, gpc, gitem, cpc,
                   results, pulled, firedAt, seqVars>>

\* The first bridge's select: case <-ctx.Done(): return
UpCancel ==
    /\ up.pc = "select"
    /\ up.ctxDone
    /\ up' = [up EXCEPT !.pc = "close"]
    /\ UNCHANGED <<gfrom, gfrom0, buffer, out, closed, ctxDone, gpc, gitem, cpc,
                   results, pulled, firedAt, seqVars>>

\* The first bridge's defer close(out)
UpClose ==
    /\ up.pc = "close"
    /\ up' = [up EXCEPT !.pc = "done"]
    /\ gfrom' = [gfrom EXCEPT !.closed = TRUE]
    /\ UNCHANGED <<gfrom0, buffer, out, closed, ctxDone, gpc, gitem, cpc,
                   results, pulled, firedAt, seqVars>>

\* cancel() of the first bridge's context.
UpCtxCancel ==
    /\ ~up.ctxDone
    /\ up' = [up EXCEPT !.ctxDone = TRUE]
    /\ UNCHANGED <<gfrom, gfrom0, buffer, out, closed, ctxDone, gpc, gitem, cpc,
                   results, pulled, firedAt, seqVars>>

\* cancel() of the second bridge's context.
DownCtxCancel ==
    /\ ~ctxDone
    /\ ctxDone' = TRUE
    /\ UNCHANGED <<gfrom, gfrom0, buffer, out, closed, gpc, gitem, cpc, results,
                   pulled, firedAt, up, seqVars>>

\* The second bridge's goroutine in from.Next(): the receive returns when
\* the first bridge's channel has an item or is closed.
DownNext ==
    /\ gfrom.chbuf # <<>> \/ gfrom.closed
    /\ GoNext

UpGoroutine == UpNext \/ UpSend \/ UpCancel \/ UpClose

DownGoroutine == DownNext \/ GoSend \/ GoCancel \/ GoClose

NextChain ==
    \/ UpNext
    \/ UpSend
    \/ UpCancel
    \/ UpClose
    \/ UpCtxCancel
    \/ DownNext
    \/ GoSend
    \/ GoCancel
    \/ GoClose
    \/ DownCtxCancel
    \/ ConsumerCall
    \/ ConsumerRecv
    \/ ConsumerAbandon

SpecChain == InitChain /\ [][NextChain]_vars

\* Both goroutines are scheduled, and each select picks at random among the
\* cases that can proceed.  Nothing is assumed of the consumer.
FairSpecChain ==
    /\ SpecChain
    /\ WF_vars(UpGoroutine)
    /\ SF_vars(UpCancel)
    /\ WF_vars(DownGoroutine)
    /\ SF_vars(GoCancel)

\* ---------------------------------------------- the Range specification
\* The caller calls Range(start, end, step) and, when Range returns, calls
\* Next and Count on the iterator it returned.  A panic ends the program.

\* The start and end values tried: around zero and up to the largest value
\* of the type.
RangeEnds == {0, 1, MaxLen, IntMax - 2, IntMax - 1, IntMax}

\* The calls tried, as <<start, end, step>>: those that must panic, and those
\* of at most MaxLen items.  Steps of 1 and 2 only: past the largest value
\* such a range either ends or never does, and no loop ends only after Fuel.
RangeArgs ==
    {<<s, e, st>> : s \in RangeEnds, e \in RangeEnds, st \in -1..2} \ 
        {a \in RangeEnds \X RangeEnds \X (-1..2) : a[2] - a[1] > MaxLen}

InitRange ==
    /\ args \in RangeArgs
    /\ iter = Nil
    /\ iter0 = Nil
    /\ trace = <<>>
    /\ hung = FALSE
    /\ result = <<>>
    /\ BridgeIdle

\* iter := Range(start, end, step)
CallRange ==
    /\ iter.kind = "nil"
    /\ args # <<>>
    /\ iter' = Range(args[1], args[2], args[3])
    /\ iter0' = iter'
    /\ UNCHANGED <<trace, hung, args, result, bridgeVars>>

RangeNext == iter.kind = "range" /\ CallNext

RangeCount == iter.kind = "range" /\ CallCount

NextRange == CallRange \/ RangeNext \/ RangeCount

SpecRange == InitRange /\ [][NextRange]_vars

\* -------------------------------------------- the Min/Max specification
\* The caller holds an iterator over items in any order and calls Next, Min
\* and Max on it.

\* Every slice of up to MaxLen items out of 1..MaxLen, in every order and
\* with repeats.
AnySlices == UNION {[1..n -> 1..MaxLen] : n \in 0..MaxLen}

OrderedInputs ==
    {Empty} \cup {FromSlice(s) : s \in AnySlices}
        \cup {Filter(FromSlice(s), "even") : s \in {t \in AnySlices : Len(t) <= 2}}

InitMinMax ==
    /\ iter \in OrderedInputs
    /\ iter0 = iter
    /\ trace = <<>>
    /\ hung = FALSE
    /\ args = <<>>
    /\ result = <<>>
    /\ BridgeIdle

\* The caller after a Min or Max call, r being what the call returned.
Returned(op, r) ==
    IF r.hang
    THEN /\ hung' = TRUE
         /\ UNCHANGED <<iter, trace>>
    ELSE /\ iter' = r.it
         /\ trace' = Append(trace, [op |-> op, val |-> r.item, ok |-> r.ok])
         /\ UNCHANGED hung

\* val, ok := Min(iter)
CallMin ==
    /\ ~hung
    /\ Len(trace) < MaxOps
    /\ Returned("Min", Min(iter))
    /\ UNCHANGED <<iter0, args, result, bridgeVars>>

\* val, ok := Max(iter)
CallMax ==
    /\ ~hung
    /\ Len(trace) < MaxOps
    /\ Returned("Max", Max(iter))
    /\ UNCHANGED <<iter0, args, result, bridgeVars>>

NextMinMax == CallNext \/ CallMin \/ CallMax

SpecMinMax == InitMinMax /\ [][NextMinMax]_vars

\* ---------------------------------------------- the sinks specification
\* The caller holds an iterator over items in any order, pulls some items
\* with Next, hands it to a sink (Reduce or ToSlice) and pulls again; a
\* slice ToSlice returned it wraps with FromSlice and collects once more.
CollectInputs ==
    {Empty, Once(7)}
        \cup {FromSlice(s) : s \in AnySlices}
        \cup {Filter(FromSlice(s), "even") : s \in AnySlices}
        \cup {FilterMap(FromSlice(s), "doubleLt5") : s \in AnySlices}
        \cup {Map(FromSlice(s), "double") : s \in Slices}

InitCollect ==
    /\ iter \in CollectInputs
    /\ iter0 = iter
    /\ trace = <<>>
    /\ hung = FALSE
    /\ args = <<>>
    /\ result = <<>>
    /\ BridgeIdle

\* No sink has been called on the handle yet.
NoSinkCalled == \A i \in 1..Len(trace) : trace[i].op = "Next"

\* The caller's last call, "" before the first.
LastOp == IF trace = <<>> THEN "" ELSE trace[Len(trace)].op

\* The caller after a Reduce call, r being what the call returned.
ReduceReturned(reduceFunc, initial, r) ==
    IF r.hang
    THEN /\ hung' = TRUE
         /\ UNCHANGED <<iter, trace>>
    ELSE /\ iter' = r.it
         /\ trace' = Append(trace, [op |-> "Reduce", val |-> r.n, ok |-> TRUE,
                                     reduceFunc |-> reduceFunc, initial |-> initial])
         /\ UNCHANGED hung

\* accum := Reduce(iter, reduceFunc, initial): Sum, and the closure that
\* depends on the order from an initial value of 1.
CallReduce ==
    /\ ~hung
    /\ Len(trace) < MaxOps
    /\ NoSinkCalled
    /\ \E c \in {<<"add", 0>>, <<"shiftAdd", 1>>} :
            ReduceReturned(c[1], c[2], Reduce(iter, c[1], c[2]))
    /\ UNCHANGED <<iter0, args, result, bridgeVars>>

\* The caller after a ToSlice call, r being what the call returned.
ToSliceReturned(r) ==
    IF r.hang
    THEN /\ hung' = TRUE
         /\ UNCHANGED <<iter, trace, result>>
    ELSE /\ iter' = r.it
         /\ result' = Append(result, r.slice)
         /\ trace' = Append(trace, [op |-> "ToSlice", val |-> Len(r.slice), ok |-> TRUE])
         /\ UNCHANGED hung

\* result := ToSlice(iter)
CallToSlice ==
    /\ ~hung
    /\ Len(trace) < MaxOps
    /\ (NoSinkCalled \/ LastOp = "FromSlice")
    /\ ToSliceReturned(ToSlice(iter))
    /\ UNCHANGED <<iter0, args, bridgeVars>>

\* iter = FromSlice(result)
CallFromSlice ==
    /\ ~hung
    /\ Len(trace) < MaxOps
    /\ Len(result) = 1
    /\ LastOp = "ToSlice"
    /\ iter' = FromSlice(result[1])
    /\ trace' = Append(trace, [op |-> "FromSlice", val |-> 0, ok |-> TRUE])
    /\ UNCHANGED <<iter0, hung, args, result, bridgeVars>>

NextCollect == CallNext \/ CallReduce \/ CallToSlice \/ CallFromSlice

SpecCollect == InitCollect /\ [][NextCollect]_vars

\* ------------------------------------------------- the two programs at once
\* A caller that either holds a handle and calls Next and Count on it, or
\* pulls from a bridge: the callers of Count in the tests do the one or the
\* other (testCounterImplementation, TestCount).
InitAny == Init \/ InitBridge

NextAny ==
    \/ (gpc = "none" /\ Next)
    \/ (gpc # "none" /\ NextBridge)

SpecAny == InitAny /\ [][NextAny]_vars

\* ------------------------------------------------------------ the claims
Min2(a, b) == IF a < b THEN a ELSE b

Max0(a) == IF a < 0 THEN 0 ELSE a

IsNext(e) == e.op = "Next"

OnlyNext == \A i \in 1..Len(trace) : IsNext(trace[i])

\* The first n items of an iterator, pulled from it directly.
RECURSIVE FirstN(_, _)

FirstN(it, n) ==
    IF n <= 0 THEN <<>>
    ELSE LET r == IterNext(it) IN
         IF r.hang \/ ~r.ok THEN <<>> ELSE <<r.item>> \o FirstN(r.it, n - 1)

\* The number of items left in an iterator that is no Counter; -1 when
\* pulling it never ends.
Remaining(it) == LET c == countLoop(it, 0, Fuel) IN IF c.hang THEN -1 ELSE c.n

\* The items the consumer of the bridge has received, in order.
IsOk(r) == r.ok

Received == [i \in 1..Len(SelectSeq(results, IsOk)) |-> SelectSeq(results, IsOk)[i].val]

SawAbsent == \E i \in 1..Len(results) : ~results[i].ok

FiniteUpstream == ~ToSlice(gfrom0).hang

\* C1: exhaustion is sticky.  On every handle built from the sources and the
\* adapters, once a Next call has returned ok = false, every later Next call
\* on the handle returns ok = false, whatever Next and Count calls are made.
C1_StickyExhaustion ==
    \A i, j \in 1..Len(trace) :
        (i < j /\ IsNext(trace[i]) /\ ~trace[i].ok /\ IsNext(trace[j]))
            => ~trace[j].ok

\* A Flatten that yielded an item, then reported absent, was counted and
\* reported absent again.
C1_Witness ==
    /\ iter0.kind = "flatten"
    /\ Len(trace) = 4
    /\ IsNext(trace[1]) /\ trace[1].ok
    /\ IsNext(trace[2]) /\ ~trace[2].ok
    /\ trace[3].op = "Count"
    /\ IsNext(trace[4]) /\ ~trace[4].ok

\* C2: while the context is not cancelled, a consumer that has pulled the
\* bridge over a finite upstream until absent has received exactly the items
\* of the upstream, in the upstream's order, for every buffer capacity and
\* every interleaving.
C2_OrderPreserved ==
    (~ctxDone /\ FiniteUpstream /\ SawAbsent) => Received = ToSlice(gfrom0).slice

\* The Go helper (buffer 1) over the longest slice, pulled until absent.
C2_Witness ==
    /\ buffer = 1
    /\ gfrom0 = FromSlice([i \in 1..MaxLen |-> i])
    /\ ~ctxDone
    /\ SawAbsent
    /\ Len(Received) = MaxLen

\* C3: on an unbuffered bridge, when the context is cancelled after the
\* consumer's first Next has returned an item and before its second Next
\* begins, no later Next returns an item.
C3_NoItemAfterCancel ==
    (/\ buffer = 0
     /\ firedAt # <<>>
     /\ firedAt[1].n = 1
     /\ firedAt[1].cpc = "idle"
     /\ results[1].ok)
        => \A i \in 2..Len(results) : ~results[i].ok

\* C4: once the context is cancelled, the goroutine of ToChannel returns and
\* the channel is closed, for every buffer capacity, every upstream (Repeat
\* too) and whether the consumer has dropped the iterator or keeps pulling.
C4_CancelTerminates == ctxDone ~> (gpc = "done" /\ closed)

\* Cancelled over Repeat with the consumer gone: the goroutine has returned.
C4_Witness ==
    /\ gfrom0 = Repeat(7)
    /\ cpc = "gone"
    /\ ctxDone
    /\ gpc = "done"
    /\ closed

\* C5: over a finite upstream, unless the context is cancelled or the
\* consumer drops the iterator, the goroutine returns and the channel is
\* closed.
C5_ExhaustionTerminates ==
    FiniteUpstream ~> (ctxDone \/ cpc = "gone" \/ (gpc = "done" /\ closed))

\* An unbuffered bridge drained to absent, never cancelled: the goroutine
\* has returned.
C5_Witness ==
    /\ buffer = 0
    /\ gfrom0 = FromSlice([i \in 1..MaxLen |-> i])
    /\ ~ctxDone
    /\ SawAbsent
    /\ gpc = "done"
    /\ closed

\* C6: over a finite upstream or with the context cancelled, every Next call
\* of the consumer returns.
C6_PullReturns ==
    (cpc = "recv" /\ (FiniteUpstream \/ ctxDone)) ~> (cpc = "idle")

\* A Next call over Repeat that returned absent after the cancellation.
C6_Witness ==
    /\ gfrom0 = Repeat(7)
    /\ ctxDone
    /\ cpc = "idle"
    /\ SawAbsent

\* C7 as claimed: the goroutine has pulled at most buffer items more than the
\* consumer has received.
C7_AheadAtMostBuffer == Len(pulled) - Len(Received) <= buffer

\* C7 as amended: the goroutine has pulled at most buffer + 1 items more than
\* the consumer has received: those in the buffer and the one it holds at the
\* select.
C7_AheadAtMostBufferPlusOne == Len(pulled) - Len(Received) <= buffer + 1

\* The Go helper (buffer 1) two items ahead of the consumer.
C7_Witness ==
    /\ buffer = 1
    /\ Len(pulled) < MaxHist
    /\ Len(pulled) - Len(Received) = 2

\* C8: Take(S, n) driven by Next alone over an S with at least n items
\* returns the first n items of S in order and then absent on every further
\* call, and calls Next on S at most n times.
C8_TakeFirstN ==
    (/\ iter0.kind = "take"
     /\ OnlyNext
     /\ Len(FirstN(iter0.from, iter0.num)) = Max0(iter0.num))
        => /\ \A i \in 1..Len(trace) :
                IF i <= iter0.num
                THEN trace[i].ok /\ trace[i].val = FirstN(iter0.from, iter0.num)[i]
                ELSE ~trace[i].ok
           /\ iter.from.calls <= Max0(iter0.num)

\* Take(Repeat(7), MaxTake) pulled MaxTake + 2 times.
C8_Witness ==
    /\ iter0 = Take(Repeat(7), MaxTake)
    /\ OnlyNext
    /\ Len(trace) = MaxTake + 2
    /\ trace[MaxTake].ok
    /\ ~trace[MaxTake + 1].ok
    /\ iter.from.calls = MaxTake

\* C9: a Count call on a Take whose upstream S is no Counter obtains at most
\* min(items left in S, allowance left) items from S.  Only the Next calls on
\* S that return an item are counted, which reads the claim in its favour.
C9_TakeCountPullsAtMostMin ==
    [][(/\ iter.kind = "take"
        /\ ~IsCounter(iter.from)
        /\ Len(trace') = Len(trace) + 1
        /\ trace'[Len(trace')].op = "Count")
            => iter'.from.got - iter.from.got
                 <= (IF Remaining(iter.from) < 0 THEN Max0(iter.num)
                     ELSE Min2(Remaining(iter.from), Max0(iter.num)))]_vars

\* C10: a Take built with num = 0 never calls Next on its upstream, whatever
\* Next and Count calls are made on it.
C10_TakeZeroNeverPulls ==
    (iter0.kind = "take" /\ iter0.num = 0) => iter.from.calls = 0

\* The value the Count call of this step returned.
Counted == trace'[Len(trace')].val

\* An iterator that keeps yielding: more items than any finite one has.
YieldsForever(it) == Len(FirstN(it, 2 * MaxHist)) = 2 * MaxHist

\* C11: a Count call on Take(S, n) over a finite S, for every n, with or
\* without a Count method on S and after any calls made on the handle before,
\* returns the number of items pulling the Take to the end would have
\* yielded: max(0, min(allowance left, items left in S)).
C11_TakeCountValue ==
    [][(/\ CallCount
        /\ iter.kind = "take"
        /\ Remaining(iter.from) >= 0)
            => /\ ~hung'
               /\ Counted = Remaining(iter)
               /\ Counted = Max0(Min2(iter.num, Remaining(iter.from)))]_vars

\* C12: a Count call on Take(S, n) with n >= 0 over an S that yields for
\* ever returns, and returns the allowance left, whether or not S has a Count
\* method.
C12_TakeCountInfinite ==
    [][(/\ CallCount
        /\ iter.kind = "take"
        /\ iter.num >= 0
        /\ YieldsForever(iter.from))
            => /\ ~hung'
               /\ Counted = iter.num]_vars

\* An iterator that keeps the contract of Counter: it has no Count method, or
\* its Count returns the number of items pulling it would yield.
KeepsContract(it) ==
    \/ ~IsCounter(it)
    \/ /\ ~IterCount(it).hang
       /\ IterCount(it).n = Remaining(it)

\* C13: a Count call on a Flatten over finite groups, made after any calls
\* on the handle, returns the number of items pulling the Flatten would still
\* yield: the items left in the active inner iterator and the items of every
\* group not yet started, each once.
C13_FlattenCountValue ==
    [][(/\ CallCount
        /\ iter.kind = "flatten"
        /\ Remaining(iter) >= 0)
            => /\ ~hung'
               /\ Counted = Remaining(iter)]_vars

\* TestFlatten's second case: one item pulled from a Flatten of two groups
\* of two, then counted: three items were left.
C13_Witness ==
    /\ iter0 = Flatten(Map(FromSliceOfSlices(<<<<2, 3>>, <<2, 3>>>>), "FromSlice"))
    /\ Len(trace) = 2
    /\ IsNext(trace[1]) /\ trace[1].ok
    /\ trace[2].op = "Count" /\ trace[2].val = 3
    /\ iter.head.kind = "slice"

\* C14: a Count call on Map(S, f) over a finite S that keeps the contract
\* of Counter, made after any calls on the handle, returns the number of
\* items left in S, which is the number pulling the Map would yield.
C14_MapCountValue ==
    [][(/\ CallCount
        /\ iter.kind = "map"
        /\ Remaining(iter.from) >= 0
        /\ KeepsContract(iter.from))
            => /\ ~hung'
               /\ Counted = Remaining(iter.from)
               /\ Counted = Remaining(iter)]_vars

\* A Map over the longest slice, one item pulled, then counted.
C14_Witness ==
    /\ iter0 = Map(FromSlice([i \in 1..MaxLen |-> i]), "double")
    /\ Len(trace) = 2
    /\ IsNext(trace[1]) /\ trace[1].ok /\ trace[1].val = 2
    /\ trace[2].op = "Count" /\ trace[2].val = MaxLen - 1

\* C15: once a Count call has returned on a handle with a Count method (Map,
\* Take, Flatten), whatever was pulled from it before, every later Next call
\* on the handle returns absent and every later Count call returns 0.
C15_CountLeavesExhausted ==
    IsCounter(iter0)
        => \A i, j \in 1..Len(trace) :
            (i < j /\ trace[i].op = "Count")
                => IF IsNext(trace[j]) THEN ~trace[j].ok ELSE trace[j].val = 0

\* testCounterImplementation on a Take with one item already pulled: Count,
\* then Next returned absent, then Count returned 0.
C15_Witness ==
    /\ iter0 = Take(FromSlice([i \in 1..MaxLen |-> i]), 2)
    /\ Len(trace) = 4
    /\ IsNext(trace[1]) /\ trace[1].ok
    /\ trace[2].op = "Count" /\ trace[2].val = 1
    /\ IsNext(trace[3]) /\ ~trace[3].ok
    /\ trace[4].op = "Count" /\ trace[4].val = 0

\* The results of the consumer's Next calls up to the first absent one: what
\* the loop of Count sees of them.
RECURSIVE UntilAbsent(_)

UntilAbsent(rs) ==
    IF rs = <<>> \/ ~Head(rs).ok THEN <<>> ELSE <<Head(rs)>> \o UntilAbsent(Tail(rs))

\* C16: a Count(iter) call on a handle with a Count method is that method's
\* call: it returns its value, leaves its state, and no Next is called on the
\* handle itself.  On a finite handle without one it calls Next until
\* absent: it returns the number of items the handle still had, has called
\* Next once more than that, and leaves the handle exhausted.  On a bridge
\* that is never cancelled (Go with context.Background()), the Next calls up
\* to the first absent one return as many items as the upstream had, and
\* every Next after it is absent.
C16_GenericCount ==
    /\ [][(gpc = "none" /\ CallCount) =>
            IF IsCounter(iter)
            THEN IF IterCount(iter).hang THEN hung'
                 ELSE /\ ~hung'
                      /\ Counted = IterCount(iter).n
                      /\ iter' = IterCount(iter).it
                      /\ iter'.calls = iter.calls
            ELSE ~ToSlice(iter).hang
                    => /\ ~hung'
                       /\ Counted = Len(ToSlice(iter).slice)
                       /\ iter'.calls = iter.calls + Counted + 1
                       /\ ~IterNext(iter').ok]_vars
    /\ []((gpc # "none" /\ ~ctxDone /\ FiniteUpstream /\ SawAbsent)
            => /\ Len(UntilAbsent(results)) = Len(ToSlice(gfrom0).slice)
               /\ \A i \in 1..Len(results) :
                    i > Len(UntilAbsent(results)) => ~results[i].ok)

\* TestCount: Go (buffer 1) over a slice of three, pulled until absent and
\* once more.
C16_Witness ==
    /\ buffer = 1
    /\ gfrom0 = FromSlice(<<1, 2, 3>>)
    /\ ~ctxDone
    /\ Len(UntilAbsent(results)) = 3
    /\ Len(results) = 5
    /\ ~results[4].ok /\ ~results[5].ok

\* The items of every iterator of a sequence of iterators, one iterator
\* after the other.
RECURSIVE ConcatAll(_)

ConcatAll(groups) ==
    IF groups = <<>> THEN <<>>
    ELSE ToSlice(Head(groups)).slice \o ConcatAll(Tail(groups))

\* C17: a Flatten over finite groups, driven by Next alone, returns the items
\* of the first group in order, then those of the second, and so on, passing
\* over empty groups, and returns absent only after the last item of the
\* last group, on every further call; over no groups at all the first Next
\* is absent.
C17_FlattenConcat ==
    (iter0.kind = "flatten" /\ OnlyNext /\ Remaining(iter0) >= 0)
        => \A i \in 1..Len(trace) :
            IF i <= Len(ConcatAll(ToSlice(iter0.from).slice))
            THEN /\ trace[i].ok
                 /\ trace[i].val = ConcatAll(ToSlice(iter0.from).slice)[i]
            ELSE ~trace[i].ok

\* The groups <<1>> and <<2, 3>> pulled to 1, 2, 3 and absent.
C17_Witness ==
    /\ iter0 = Flatten(Map(FromSliceOfSlices(<<<<1>>, <<2, 3>>>>), "FromSlice"))
    /\ OnlyNext
    /\ Len(trace) = 4
    /\ trace[1].val = 1 /\ trace[2].val = 2 /\ trace[3].val = 3
    /\ trace[3].ok
    /\ ~trace[4].ok

\* C18: a Range(start, end, step) call panics, returning no iterator and
\* before any Next call, exactly when end < start or step <= 0; otherwise
\* (start = end included) it returns the iterator over those arguments, and
\* no later Next or Count call on it panics.
C18_RangeFailsFast ==
    (args # <<>> /\ iter.kind # "nil")
        => /\ (iter0.kind = "panic") <=> (args[2] < args[1] \/ args[3] <= 0)
           /\ iter0.kind = "panic" => (iter = iter0 /\ trace = <<>>)
           /\ iter0.kind # "panic"
                => /\ iter0 = [kind |-> "range", start |-> args[1], end |-> args[2],
                               step |-> args[3], calls |-> 0, got |-> 0]
                   /\ iter.kind = "range"

\* TestRange's "panic on end before start".
C18_Witness ==
    /\ args = <<MaxLen, 0, 1>>
    /\ iter.kind = "panic"
    /\ trace = <<>>

\* The number of items of the range start, start + step, ... below end.
RangeLen(a) == (a[2] - a[1] + a[3] - 1) \div a[3]

\* C19: the iterator Range(start, end, step) returned, for arguments of the
\* fixed-width type up to its largest value, yields start, start + step, ...
\* as long as the value is below end, RangeLen items in all, and then
\* absent; a Count call after some of them returns the number left; and no
\* call fails to return.
C19_RangeValues ==
    (args # <<>> /\ iter0.kind = "range")
        => /\ ~hung
           /\ \A i \in 1..Len(trace) :
                (\A j \in 1..(i - 1) : IsNext(trace[j]))
                    => IF IsNext(trace[i])
                       THEN IF i <= RangeLen(args)
                            THEN /\ trace[i].ok
                                 /\ trace[i].val = args[1] + (i - 1) * args[3]
                            ELSE ~trace[i].ok
                       ELSE trace[i].val = Max0(RangeLen(args) - (i - 1))

\* The items the handle had left before its i-th call, when every call
\* before it was a Next.
LeftBefore(i) ==
    SubSeq(ToSlice(iter0).slice, i, Len(ToSlice(iter0).slice))

\* C20: a Min or Max call on a finite iterator, made after any number of
\* Next calls, returns ok = false when no item is left, and otherwise
\* ok = true with an item that is among those left and that none of them,
\* the first included, is below (Min) or above (Max); after it every call
\* on the iterator returns absent.
C20_MinMax ==
    /\ ~hung
    /\ \A i \in 1..Len(trace) :
        (/\ ~IsNext(trace[i])
         /\ \A j \in 1..(i - 1) : IsNext(trace[j]))
            => /\ trace[i].ok <=> LeftBefore(i) # <<>>
               /\ trace[i].ok
                    => /\ \E k \in 1..Len(LeftBefore(i)) : LeftBefore(i)[k] = trace[i].val
                       /\ \A k \in 1..Len(LeftBefore(i)) :
                            IF trace[i].op = "Min"
                            THEN trace[i].val <= LeftBefore(i)[k]
                            ELSE trace[i].val >= LeftBefore(i)[k]
               /\ \A j \in (i + 1)..Len(trace) : ~trace[j].ok

\* Max over 3, 1, 2 returned its first item, 3, and a Min after it nothing.
C20_Witness ==
    /\ iter0 = FromSlice(<<3, 1, 2>>)
    /\ Len(trace) = 2
    /\ trace[1] = [op |-> "Max", val |-> 3, ok |-> TRUE]
    /\ trace[2].op = "Min" /\ ~trace[2].ok

\* What FilterMap is to yield of a slice: the mapped values of the items to
\* keep, in the order of the slice.
RECURSIVE KeptMapped(_, _)

KeptMapped(mapFunc, s) ==
    IF s = <<>> THEN <<>>
    ELSE (IF ApplyFilterMap(mapFunc, Head(s)).keep
          THEN <<ApplyFilterMap(mapFunc, Head(s)).val>>
          ELSE <<>>) \o KeptMapped(mapFunc, Tail(s))

\* C21: FilterMap over a slice, driven by Next alone, returns the mapped
\* values of exactly the items mapFunc says to keep, in the order of the
\* slice, and then absent; no value of a discarded item is returned.
C21_FilterMapOrder ==
    (iter0.kind = "filtermap" /\ NoSinkCalled)
        => \A i \in 1..Len(trace) :
            IF i <= Len(KeptMapped(iter0.mapFunc, iter0.from.slice))
            THEN /\ trace[i].ok
                 /\ trace[i].val = KeptMapped(iter0.mapFunc, iter0.from.slice)[i]
            ELSE ~trace[i].ok

\* 3, 2, 1 under i*2 < 5: 3 is discarded, 4 and 2 are returned, then absent.
C21_Witness ==
    /\ iter0 = FilterMap(FromSlice(<<3, 2, 1>>), "doubleLt5")
    /\ Len(trace) = 3
    /\ trace[1].ok /\ trace[1].val = 4
    /\ trace[2].ok /\ trace[2].val = 2
    /\ IsNext(trace[3]) /\ ~trace[3].ok

\* The items of a slice that pass the test, in the order of the slice.
RECURSIVE Kept(_, _)

Kept(filterFunc, s) ==
    IF s = <<>> THEN <<>>
    ELSE (IF ApplyFilter(filterFunc, Head(s)) THEN <<Head(s)>> ELSE <<>>)
            \o Kept(filterFunc, Tail(s))

\* The number of items Filter's upstream slice has given up so far.
Consumed == Len(iter0.from.slice) - Len(iter.from.slice)

\* C22: Filter over a slice, driven by Next alone, returns exactly the items
\* that pass the test, unchanged and in the order of the slice, and then
\* absent; each Next has pulled the upstream up to and including the item
\* it returned, or to its end when it returned absent.
C22_FilterSubsequence ==
    (iter0.kind = "filter" /\ NoSinkCalled)
        => /\ \A i \in 1..Len(trace) :
                IF i <= Len(Kept(iter0.filterFunc, iter0.from.slice))
                THEN /\ trace[i].ok
                     /\ trace[i].val = Kept(iter0.filterFunc, iter0.from.slice)[i]
                ELSE ~trace[i].ok
           /\ trace # <<>>
                => IF trace[Len(trace)].ok
                   THEN /\ Consumed >= 1
                        /\ iter0.from.slice[Consumed] = trace[Len(trace)].val
                        /\ Len(Kept(iter0.filterFunc,
                                     SubSeq(iter0.from.slice, 1, Consumed))) = Len(trace)
                   ELSE Consumed = Len(iter0.from.slice)

\* 2, 1, 2 under i%2 == 0: 2 and 2 are returned, then absent.
C22_Witness ==
    /\ iter0 = Filter(FromSlice(<<2, 1, 2>>), "even")
    /\ Len(trace) = 3
    /\ trace[1].ok /\ trace[1].val = 2
    /\ trace[2].ok /\ trace[2].val = 2
    /\ IsNext(trace[3]) /\ ~trace[3].ok

\* The left fold of a slice: reduceFunc applied to the fold of all but the
\* last item and the last item.
RECURSIVE FoldLeft(_, _, _)

FoldLeft(reduceFunc, initial, s) ==
    IF s = <<>> THEN initial
    ELSE ApplyReduce(reduceFunc,
                     FoldLeft(reduceFunc, initial, SubSeq(s, 1, Len(s) - 1)),
                     s[Len(s)])

\* C23: a Reduce call on a finite iterator, made after any number of Next
\* calls, returns the left fold of the items left, in their order, from the
\* initial value, which it returns as it is when no item is left; every
\* Next call after it returns absent.
C23_ReduceFold ==
    \A i \in 1..Len(trace) :
        trace[i].op = "Reduce"
            => /\ trace[i].val
                    = FoldLeft(trace[i].reduceFunc, trace[i].initial, LeftBefore(i))
               /\ \A j \in (i + 1)..Len(trace) : ~trace[j].ok

\* 3, 1, 2 folded with accum*2 + item from 1 is ((1*2+3)*2+1)*2+2 = 24, and
\* the Next after it is absent.
C23_Witness ==
    /\ iter0 = FromSlice(<<3, 1, 2>>)
    /\ Len(trace) = 2
    /\ trace[1].op = "Reduce" /\ trace[1].reduceFunc = "shiftAdd"
    /\ trace[1].val = 24
    /\ IsNext(trace[2]) /\ ~trace[2].ok

\* C24: a slice ToSlice returned, wrapped with FromSlice and collected with
\* ToSlice again, comes back with the same items in the same order; and
\* ToSlice of FromSlice(a) is a, the empty slice included.
C24_RoundTrip ==
    /\ Len(result) = 2 => result[2] = result[1]
    /\ (iter0.kind = "slice" /\ trace # <<>> /\ trace[1].op = "ToSlice")
            => result[1] = iter0.slice

\* What FilterMap yields of 3, 2, 1 collected, wrapped and collected again.
C24_Witness ==
    /\ iter0 = FilterMap(FromSlice(<<3, 2, 1>>), "doubleLt5")
    /\ Len(trace) = 3
    /\ trace[2].op = "FromSlice"
    /\ result = <<(<<4, 2>>), (<<4, 2>>)>>

\* How often this step called Next on the upstream of the handle, and the
\* items those calls returned, in order.
UpstreamCalls == iter'.from.calls - iter.from.calls

UpstreamItems == FirstN(iter.from, iter'.from.got - iter.from.got)

\* Whether Filter or FilterMap, as the handle is, passes an upstream item on.
Accepts(item) ==
    IF iter.kind = "filter" THEN ApplyFilter(iter.filterFunc, item)
    ELSE ApplyFilterMap(iter.mapFunc, item).keep

\* C25: an adapter just built has called Next on its upstream zero times.  A
\* Next call on Map or Take calls Next on the upstream at most once.  A Next
\* call on Filter or FilterMap pulls items that are all rejected but the
\* last, which it returns; every item is rejected when it returns absent.
\* A Next call on Flatten does not call Next on the outer iterator while the
\* inner one in hand has an item, and every group it pulls before the one
\* whose item it returns is empty.
C25_PullsOnDemand ==
    /\ [][(/\ trace = <<>> /\ ~hung
           /\ iter.kind \in {"map", "filter", "filtermap", "flatten", "take"})
              => iter.from.calls = 0 /\ iter.from.got = 0]_vars
    /\ [][(CallNext /\ ~hung' /\ iter.kind \in {"map", "take"})
              => UpstreamCalls <= 1]_vars
    /\ [][(CallNext /\ ~hung' /\ iter.kind \in {"filter", "filtermap"})
              => LET ok == trace'[Len(trace')].ok
                     n == Len(UpstreamItems)
                 IN
                 /\ UpstreamCalls = IF ok THEN n ELSE n + 1
                 /\ ok => n >= 1 /\ Accepts(UpstreamItems[n])
                 /\ \A j \in 1..(IF ok THEN n - 1 ELSE n) :
                        ~Accepts(UpstreamItems[j])]_vars
    /\ [][(CallNext /\ ~hung' /\ iter.kind = "flatten")
              => LET ok == trace'[Len(trace')].ok
                     n == Len(UpstreamItems)
                 IN
                 /\ (iter.head.kind # "nil" /\ IterNext(iter.head).ok)
                        => UpstreamCalls = 0
                 /\ UpstreamCalls = IF ok THEN n ELSE n + 1
                 /\ \A j \in 1..(IF ok THEN n - 1 ELSE n) :
                        ~IterNext(UpstreamItems[j]).ok]_vars

\* Filter over 1, 2, 3 after one Next: 1 and 2 were pulled, 2 was returned
\* and 3 is still in the upstream.
C25_Witness ==
    /\ iter0 = Filter(FromSlice(<<1, 2, 3>>), "even")
    /\ Len(trace) = 1
    /\ IsNext(trace[1]) /\ trace[1].ok /\ trace[1].val = 2
    /\ iter.from.calls = 2
    /\ iter.from.slice = <<3>>

\* C30: a Count call on a Map does not run mapFunc: applied, which counts
\* the runs of mapFunc, is what it was before the call, whether Count is
\* called on the Map itself or reaches it through a Take over the Map.
C30_MapCountSkipsMapFunc ==
    /\ [][(CallCount /\ iter.kind = "map") => iter'.applied = iter.applied]_vars
    /\ [][(CallCount /\ iter.kind = "take" /\ iter.from.kind = "map")
              => iter'.from.applied = iter.from.applied]_vars

\* Map over 1, 2, 3: one Next has run mapFunc once, the Count after it
\* returned 2 and mapFunc has still run once.
C30_Witness ==
    /\ iter0 = Map(FromSlice(<<1, 2, 3>>), "double")
    /\ Len(trace) = 2
    /\ IsNext(trace[1]) /\ trace[1].val = 2
    /\ trace[2].op = "Count" /\ trace[2].val = 2
    /\ iter.applied = 1

\* C27: in every interleaving of the goroutine, the consumer and the
\* cancellation, and for every buffer capacity, the items the consumer has
\* received are the first items of the upstream, in the upstream's order:
\* none is reordered, repeated or skipped.
C27_ReceivedIsPrefix ==
    gpc # "none" => Received = FirstN(gfrom0, Len(Received))

\* Cancelled over 1, 2, 3 after two items: the consumer got 1, 2 and absent.
C27_Witness ==
    /\ gfrom0 = FromSlice(<<1, 2, 3>>)
    /\ ctxDone
    /\ Received = <<1, 2>>
    /\ SawAbsent

\* C28: out is closed by the goroutine's deferred close and by nothing else,
\* once, and on both ways out of the loop: when the goroutine has returned
\* out is closed, whether from was exhausted or the context was cancelled.
\* Once out is closed it stays closed, the goroutine has returned, and
\* nothing is sent on it.
C28_ClosedOnceByTask ==
    /\ [](gpc = "done" => closed)
    /\ [](closed => gpc = "done")
    /\ [][closed' # closed => (~closed /\ gpc = "close" /\ gpc' = "done")]_vars
    /\ [][closed => (closed' /\ (out' = out \/ out' = Tail(out)))]_vars

\* The way out by cancellation: over Repeat, closed with an item still
\* buffered.
C28_Witness ==
    /\ gfrom0 = Repeat(7)
    /\ ctxDone
    /\ closed
    /\ gpc = "done"
    /\ out # <<>>

\* The items the goroutine has put on out: those received and those buffered.
Placed == Received \o out

\* C29: what the goroutine has put on out is what it pulled from the
\* upstream, in order, but for at most one item: the one it held at the
\* select when the context was cancelled.  The consumer gets absent only
\* from a closed and drained channel: by then it has received every item
\* put on out.
C29_AtMostOneLost ==
    /\ Len(pulled) < MaxHist
        => /\ Len(pulled) - Len(Placed) \in {0, 1}
           /\ Placed = SubSeq(pulled, 1, Len(Placed))
           /\ (gpc \in {"next", "close"} /\ ~ctxDone) => Len(pulled) = Len(Placed)
    /\ SawAbsent => (closed /\ out = <<>>)

\* Cancelled with 3 at the select: 1 and 2 were buffered before, and the
\* consumer has received both and then absent.
C29_Witness ==
    /\ gfrom0 = FromSlice(<<1, 2, 3>>)
    /\ buffer = 2
    /\ ctxDone
    /\ pulled = <<1, 2, 3>>
    /\ Received = <<1, 2>>
    /\ SawAbsent

\* A goroutine of ToChannel, u, has more items to send on its channel, ch,
\* than the channel has room for: the one in hand and those left in its
\* source, against the free slots of the channel.
HasExcess(u, ch) ==
    /\ u.pc \in {"next", "select"}
    /\ \/ Remaining(u.from) < 0
       \/ Remaining(u.from) + (IF u.pc = "select" THEN 1 ELSE 0)
              > u.buffer - Len(ch.chbuf)

\* The first bridge's goroutine is at its select with a full channel.
UpBlocked == up.pc = "select" /\ Len(gfrom.chbuf) = up.buffer

\* The second goroutine has returned and closed its channel, and a first
\* goroutine with more to send than fits is at its select, blocked, unless
\* its own context is cancelled.
DownGoneUpBlocked ==
    /\ gpc = "done"
    /\ closed
    /\ HasExcess(up, gfrom) => (up.ctxDone \/ UpBlocked)

\* C26: with two bridges in a chain, each with its own context, cancelling
\* the second bridge's context makes the second goroutine return and close
\* its channel.  It does not make the first goroutine return: once the
\* second has returned, a first goroutine with more items than its channel
\* has room for does not return while its own context is not cancelled, it
\* gets to its select with the channel full and stays there; when its own
\* context is cancelled it returns.
C26_NoPropagation ==
    /\ ctxDone ~> DownGoneUpBlocked
    /\ [][(gpc = "done" /\ HasExcess(up, gfrom) /\ ~up'.ctxDone)
              => (HasExcess(up', gfrom') /\ up'.pc # "done")]_vars
    /\ [][(gpc = "done" /\ UpBlocked /\ ~up'.ctxDone) => UpBlocked']_vars
    /\ up.ctxDone ~> (up.pc = "done" /\ gfrom.closed)

\* The second bridge cancelled and its goroutine gone; the first, over
\* 1, 2, 3 with room for one, holds 3 at its select with 2 in the channel.
C26_Witness ==
    /\ up.from = FromSlice(<<>>)
    /\ up.buffer = 1
    /\ ~up.ctxDone
    /\ ctxDone
    /\ gpc = "done"
    /\ closed
    /\ UpBlocked
    /\ up.item = 3
    /\ gfrom.chbuf = <<2>>

====
